---- MODULE Spec2Model ----
(***************************************************************************)
(* Black-Scholes vanilla option prices and greeks                          *)
(* (src/torch_qf/options/black-scholes/vanilla_option.py).                 *)
(*                                                                         *)
(* Both entry points are pure functions of their keyword arguments.  A     *)
(* behaviour of the model is one call: Init draws the keyword arguments,   *)
(* one action per entry point runs the whole function body, statement by   *)
(* statement, and stores what the call ended in: a returned tensor or a    *)
(* raised exception, together with the local namespace and the numeric     *)
(* statements executed up to that point.                                   *)
(*                                                                         *)
(* Tensor elements are fixed-point numbers: the integer n stands for the   *)
(* float n / SCALE.                                                        *)
(***************************************************************************)
EXTENDS Integers, Sequences, FiniteSets, TLC

-----------------------------------------------------------------------------
(* Bounds of the model *)

\* longest batch drawn for a call
MaxBatch == 2
\* terms of the power series behind exp, log and the normal cdf
ExpTerms == 12
LogTerms == 8
CdfTerms == 24
\* fixed-point units within which two floats are taken to be equal
Tol == 20

-----------------------------------------------------------------------------
(* Fixed-point arithmetic: the elementwise float operations of torch *)

SCALE == 10^4

\* line 9: pi = 3.14159265359
pi == 31416

Abs(n) == IF n < 0 THEN -n ELSE n
Sgn(n) == IF n < 0 THEN -1 ELSE 1
RoundDiv(n, d) == Sgn(n) * Sgn(d) * ((2 * Abs(n) + Abs(d)) \div (2 * Abs(d)))
FxMul(a, b) == RoundDiv(a * b, SCALE)
FxDiv(a, b) == RoundDiv(a * SCALE, b)

RECURSIVE ExpSeries(_, _, _, _)
ExpSeries(x, n, term, acc) ==
    IF n > ExpTerms \/ term = 0 THEN acc
    ELSE LET t == RoundDiv(FxMul(term, x), n) IN ExpSeries(x, n + 1, t, acc + t)
FxExp(x) == ExpSeries(x, 1, SCALE, SCALE)

RECURSIVE AtanhSeries(_, _, _, _)
AtanhSeries(z2, k, pow, acc) ==
    IF k > LogTerms \/ pow = 0 THEN acc
    ELSE LET p == FxMul(pow, z2)
         IN AtanhSeries(z2, k + 1, p, acc + RoundDiv(p, 2 * k + 1))
FxLog(x) ==
    LET z == FxDiv(x - SCALE, x + SCALE)
    IN 2 * AtanhSeries(FxMul(z, z), 1, z, z)

RECURSIVE Isqrt(_, _)
Isqrt(n, r) ==
    LET nr == (r + n \div r) \div 2 IN IF nr >= r THEN r ELSE Isqrt(n, nr)
FxSqrt(x) == IF x <= 0 THEN 0 ELSE Isqrt(x * SCALE, x + SCALE)

\* scipy.stats.norm.cdf: 1/2 + pdf(x) * (x + x^3/3 + x^5/15 + ...)
LibSqrt2Pi == FxSqrt(2 * 31416)
RECURSIVE CdfSeries(_, _, _, _)
CdfSeries(x2, k, term, acc) ==
    IF k > CdfTerms \/ term = 0 THEN acc
    ELSE LET t == RoundDiv(FxMul(term, x2), 2 * k + 1)
         IN CdfSeries(x2, k + 1, t, acc + t)
FxCdf(x) ==
    LET x2 == FxMul(x, x)
        pdf == FxDiv(FxExp(-RoundDiv(x2, 2)), LibSqrt2Pi)
    IN (SCALE \div 2) + FxMul(pdf, CdfSeries(x2, 1, x, x))

\* elementwise tensor operations (a tensor is a sequence of fixed-point numbers)
TAdd(a, b) == [i \in 1..Len(a) |-> a[i] + b[i]]
TSub(a, b) == [i \in 1..Len(a) |-> a[i] - b[i]]
TMul(a, b) == [i \in 1..Len(a) |-> FxMul(a[i], b[i])]
TDiv(a, b) == [i \in 1..Len(a) |-> FxDiv(a[i], b[i])]
TNeg(a) == [i \in 1..Len(a) |-> -a[i]]
\* tensor / k and k * tensor and tensor - k for a Python number k
TDivInt(a, k) == [i \in 1..Len(a) |-> RoundDiv(a[i], k)]
TScale(k, a) == [i \in 1..Len(a) |-> FxMul(k, a[i])]
TSubInt(a, k) == [i \in 1..Len(a) |-> a[i] - k * SCALE]
\* tensor ** 2
TSquare(a) == [i \in 1..Len(a) |-> FxMul(a[i], a[i])]
torch_exp(a) == [i \in 1..Len(a) |-> FxExp(a[i])]
torch_log(a) == [i \in 1..Len(a) |-> FxLog(a[i])]
torch_sqrt(a) == [i \in 1..Len(a) |-> FxSqrt(a[i])]
torch_zeros_like(a) == [i \in 1..Len(a) |-> 0]
norm_cdf(a) == [i \in 1..Len(a) |-> FxCdf(a[i])]

-----------------------------------------------------------------------------
(* Python values and the keyword arguments of a call *)

\* a keyword argument: None, a Python list of floats, or a float tensor
None == [type |-> "NoneType", v |-> << >>]
PyList(b) == [type |-> "list", v |-> b]
PyTensor(b) == [type |-> "Tensor", v |-> b]
IsNone(x) == x.type = "NoneType"

\* the option-type flags passed as is_call_options, and Python's == on them
Flags == {"True", "False", "1", "0", "'call'"}
PyEqTrue(f) == f \in {"True", "1"}
PyEqFalse(f) == f \in {"False", "0"}

\* the values passed as greek
GreekNames == {"delta", "gamma", "theta", "vega", "rho"}
Selectors == GreekNames \cup {"vanna"}

\* one option instance: every market quantity a caller may supply for it
Markets ==
    { [strike |-> 10000, vol |-> 2000, expiry |-> 10000, spot |-> 10000,
       forward |-> 10500, rate |-> 500, dividend |-> 200, carry |-> 300,
       factor |-> 9500],
      [strike |-> 11000, vol |-> 3000, expiry |-> 5000, spot |-> 10000,
       forward |-> 9800, rate |-> 300, dividend |-> 500, carry |-> -200,
       factor |-> 9800] }

Batches == UNION { [1..n -> Markets] : n \in 1..MaxBatch }
Column(b, f) == [i \in 1..Len(b) |-> b[i][f]]

\* the ways the keyword arguments can be supplied for the batch b
Optional(b, f) == {None, PyList(Column(b, f))}
ArgsOf(b) ==
    [ strikes : {PyList(Column(b, "strike"))},
      volatilities : {PyList(Column(b, "vol"))},
      expiries : {PyList(Column(b, "expiry")), PyTensor(Column(b, "expiry"))},
      spots : Optional(b, "spot"),
      forwards : Optional(b, "forward"),
      discount_rates : Optional(b, "rate"),
      continuous_dividends : Optional(b, "dividend"),
      cost_of_carries : Optional(b, "carry"),
      discount_factors : Optional(b, "factor")
                           \cup {PyTensor(Column(b, "factor"))} ]
Args == UNION { ArgsOf(b) : b \in Batches }

-----------------------------------------------------------------------------
(* Execution of a function body *)

MsgGreek == "Input greek should be one of 'delta','gamma','theta','vega','rho'"
MsgSpotForward == "Either spots or forwards must be supplied but not both."
MsgDiscount == "At most one of discount_rates and discount_factors may be supplied"
MsgDividend == "At most one of continuous_dividends and cost_of_carries may be supplied"
MsgFlag == "Variable 'is_call_options' can only be Booleans "

\* the frame of a call: local names bound so far, the exception raised (if
\* any), the value returned (if any), and the names assigned so far, in
\* order: every assignment of either body is a tensor computation
Frame0 ==
    [ locals |-> << >>, exc |-> "", msg |-> "", done |-> FALSE,
      ret |-> << >>, work |-> << >> ]
Running(st) == st.exc = "" /\ ~st.done
Raise(st, e, m) == [st EXCEPT !.exc = e, !.msg = m]
Return(st, v) == [st EXCEPT !.done = TRUE, !.ret = v]
Bound(st, n) == n \in DOMAIN st.locals
\* name = <tensor expression>
Assign(st, n, val) ==
    [st EXCEPT !.locals = [k \in (DOMAIN st.locals) \cup {n} |->
                              IF k = n THEN val ELSE st.locals[k]],
               !.work = Append(st.work, n)]
\* reading a local name that no statement has bound yet
Unbound(st, n) == Raise(st, "UnboundLocalError", n)

-----------------------------------------------------------------------------
(* The statements both bodies share (lines 25-57 and 92-124 are the same text) *)

\* CheckExclusivity with the first test written as "both supplied" only
CheckExclusivity_BothOnly(st, a) ==
    IF ~Running(st) THEN st
    ELSE IF ~IsNone(a.spots) /\ ~IsNone(a.forwards)
        THEN Raise(st, "ValueError", MsgSpotForward)
    ELSE IF ~IsNone(a.discount_rates) /\ ~IsNone(a.discount_factors)
        THEN Raise(st, "ValueError", MsgDiscount)
    ELSE IF ~IsNone(a.continuous_dividends) /\ ~IsNone(a.cost_of_carries)
        THEN Raise(st, "ValueError", MsgDividend)
    ELSE st

\* lines 25-30 / 92-97
CheckExclusivity(st, a) ==
    IF ~Running(st) THEN st
    ELSE IF IsNone(a.spots) = IsNone(a.forwards)
        THEN Raise(st, "ValueError", MsgSpotForward)
    ELSE IF ~IsNone(a.discount_rates) /\ ~IsNone(a.discount_factors)
        THEN Raise(st, "ValueError", MsgDiscount)
    ELSE IF ~IsNone(a.continuous_dividends) /\ ~IsNone(a.cost_of_carries)
        THEN Raise(st, "ValueError", MsgDividend)
    ELSE st

\* lines 32-34 / 99-101
MakeTensors(st, a) ==
    IF ~Running(st) THEN st
    ELSE LET s1 == Assign(st, "t_strikes", a.strikes.v)
             s2 == Assign(s1, "t_volatilities", a.volatilities.v)
         IN Assign(s2, "t_expiries", a.expiries.v)

\* lines 36-41 / 103-108
\* line 39 works on the arguments themselves: torch.log accepts only a
\* tensor, and a tensor cannot be divided by a list
ResolveDiscountRates(st, a) ==
    IF ~Running(st) THEN st
    ELSE IF ~IsNone(a.discount_rates)
        THEN Assign(st, "t_discount_rates", a.discount_rates.v)
    ELSE IF ~IsNone(a.discount_factors)
        THEN IF a.discount_factors.type # "Tensor"
                 THEN Raise(st, "TypeError", "log(): argument 'input' must be Tensor")
             ELSE IF a.expiries.type # "Tensor"
                 THEN Raise(st, "TypeError", "unsupported operand type(s) for /")
             ELSE Assign(st, "t_discount_rates",
                         TDiv(TNeg(torch_log(a.discount_factors.v)), a.expiries.v))
    ELSE Assign(st, "t_discount_rates", torch_zeros_like(st.locals["t_volatilities"]))

\* lines 43-44 / 110-111: nothing is assigned when continuous_dividends is supplied
ResolveContinuousDividends(st, a) ==
    IF ~Running(st) THEN st
    ELSE IF IsNone(a.continuous_dividends)
        THEN Assign(st, "t_continuous_dividends",
                    torch_zeros_like(st.locals["t_volatilities"]))
    ELSE st

\* lines 46-49 / 113-116
ResolveCostOfCarries(st, a) ==
    IF ~Running(st) THEN st
    ELSE IF ~IsNone(a.cost_of_carries)
        THEN Assign(st, "t_cost_of_carries", a.cost_of_carries.v)
    ELSE IF ~Bound(st, "t_continuous_dividends")
        THEN Unbound(st, "t_continuous_dividends")
    ELSE Assign(st, "t_cost_of_carries",
                TSub(st.locals["t_discount_rates"], st.locals["t_continuous_dividends"]))

\* lines 51-54 / 118-121
ResolveDiscountFactors(st, a) ==
    IF ~Running(st) THEN st
    ELSE IF ~IsNone(a.discount_factors)
        THEN Assign(st, "t_discount_factors", a.discount_factors.v)
    ELSE Assign(st, "t_discount_factors",
                torch_exp(TMul(TNeg(st.locals["t_discount_rates"]), st.locals["t_expiries"])))

\* lines 32-54 / 99-121 in order
Normalize(st, a) ==
    ResolveDiscountFactors(
        ResolveCostOfCarries(
            ResolveContinuousDividends(
                ResolveDiscountRates(MakeTensors(st, a), a), a), a), a)

\* t_sqrt_var and d1 as every kernel computes them (lines 63-64, 132-133, ...)
SqrtVar(L) == TMul(L["t_volatilities"], torch_sqrt(L["t_expiries"]))
D1(L) ==
    LET t_sqrt_var == SqrtVar(L)
    IN TDiv(TAdd(torch_log(TDiv(L["t_forwards"], L["t_strikes"])),
                 TDivInt(TMul(t_sqrt_var, t_sqrt_var), 2)),
            t_sqrt_var)

-----------------------------------------------------------------------------
(* get_vanilla_prices *)

\* lines 56-61: line 58 reads t_spots, which nothing has assigned
PricesSpotForward(st, a) ==
    IF ~Running(st) THEN st
    ELSE IF ~IsNone(a.forwards)
        THEN LET s1 == Assign(st, "t_forwards", a.forwards.v)
             IN IF ~Bound(s1, "t_spots") THEN Unbound(s1, "t_spots") ELSE s1
    ELSE LET s1 == Assign(st, "t_spots", a.spots.v)
         IN Assign(s1, "t_forwards",
                   TMul(s1.locals["t_spots"],
                        torch_exp(TMul(s1.locals["t_cost_of_carries"],
                                       s1.locals["t_expiries"]))))

\* lines 63-66
UndiscountedCalls(st) ==
    IF ~Running(st) THEN st
    ELSE LET s1 == Assign(st, "t_sqrt_var", SqrtVar(st.locals))
             s2 == Assign(s1, "d1", D1(s1.locals))
             s3 == Assign(s2, "d2", TSub(s2.locals["d1"], s2.locals["t_sqrt_var"]))
         IN Assign(s3, "t_undiscounted_calls",
                   TSub(TMul(s3.locals["t_forwards"], norm_cdf(s3.locals["d1"])),
                        TMul(s3.locals["t_strikes"], norm_cdf(s3.locals["d2"]))))

\* line 68
CallPrice(st) ==
    Return(st, TMul(st.locals["t_discount_factors"], st.locals["t_undiscounted_calls"]))

\* lines 70-72: line 72 multiplies by the argument discount_factors, not by
\* t_discount_factors; None * Tensor and list * Tensor are TypeErrors
PutPrice(st, a) ==
    LET s1 == Assign(st, "t_undiscounted_forward",
                     TSub(st.locals["t_forwards"], st.locals["t_strikes"]))
        s2 == Assign(s1, "t_undiscounted_puts",
                     TSub(s1.locals["t_undiscounted_calls"],
                          s1.locals["t_undiscounted_forward"]))
    IN IF a.discount_factors.type # "Tensor"
           THEN Raise(s2, "TypeError", "unsupported operand type(s) for *")
       ELSE Return(s2, TMul(a.discount_factors.v, s2.locals["t_undiscounted_puts"]))

\* lines 67-72
PricesDispatch(st, a, is_call_options) ==
    IF ~Running(st) THEN st
    ELSE IF PyEqTrue(is_call_options) THEN CallPrice(st)
    ELSE PutPrice(st, a)

\* get_vanilla_prices with the tensors of lines 32-34 built before the checks
get_vanilla_prices_LateCheck(a, is_call_options) ==
    LET s1 == MakeTensors(Frame0, a)
        s2 == CheckExclusivity(s1, a)
        s3 == ResolveDiscountFactors(
                  ResolveCostOfCarries(
                      ResolveContinuousDividends(
                          ResolveDiscountRates(s2, a), a), a), a)
        s4 == PricesSpotForward(s3, a)
        s5 == UndiscountedCalls(s4)
    IN PricesDispatch(s5, a, is_call_options)

\* lines 11-72
get_vanilla_prices(a, is_call_options) ==
    LET s1 == CheckExclusivity(Frame0, a)
        s2 == Normalize(s1, a)
        s3 == PricesSpotForward(s2, a)
        s4 == UndiscountedCalls(s3)
    IN PricesDispatch(s4, a, is_call_options)

-----------------------------------------------------------------------------
(* get_vanilla_greeks *)

\* lines 90-91
CheckGreek(st, greek) ==
    IF ~Running(st) THEN st
    ELSE IF greek \notin GreekNames THEN Raise(st, "ValueError", MsgGreek)
    ELSE st

\* lines 123-128
GreeksSpotForward(st, a) ==
    IF ~Running(st) THEN st
    ELSE IF ~IsNone(a.forwards)
        THEN LET s1 == Assign(st, "t_forwards", a.forwards.v)
             IN Assign(s1, "t_spots",
                       TMul(s1.locals["t_forwards"],
                            torch_exp(TMul(TNeg(s1.locals["t_cost_of_carries"]),
                                           s1.locals["t_expiries"]))))
    ELSE LET s1 == Assign(st, "t_spots", a.spots.v)
         IN Assign(s1, "t_forwards",
                   TMul(s1.locals["t_spots"],
                        torch_exp(TMul(s1.locals["t_cost_of_carries"],
                                       s1.locals["t_expiries"]))))

\* t_sqrt_var, d1 (and d2) as each branch assigns them first
WithD1(st) ==
    LET s1 == Assign(st, "t_sqrt_var", SqrtVar(st.locals))
    IN Assign(s1, "d1", D1(s1.locals))
WithD2(st) ==
    LET s1 == WithD1(st)
    IN Assign(s1, "d2", TSub(s1.locals["d1"], s1.locals["t_sqrt_var"]))

\* torch.exp(-d1 ** 2 / 2)
ExpHalfSquare(d1) == torch_exp(TDivInt(TNeg(TSquare(d1)), 2))
\* torch.sqrt(2 * pi * (t_expiries))
Sqrt2PiT(L) == torch_sqrt(TScale(2 * pi, L["t_expiries"]))
\* t_strikes * ... * torch.exp(-t_cost_of_carries * t_expiries) * ...
CarryDiscount(L) == torch_exp(TMul(TNeg(L["t_cost_of_carries"]), L["t_expiries"]))

\* line 134
call_delta(L) == norm_cdf(L["d1"])
\* line 139
call_gamma(L) ==
    TDiv(ExpHalfSquare(L["d1"]),
         TMul(TMul(Sqrt2PiT(L), L["t_spots"]), L["t_volatilities"]))
\* lines 145-147
call_theta(L) ==
    TSub(TDiv(TMul(TMul(L["t_spots"], L["t_volatilities"]), ExpHalfSquare(L["d1"])),
              Sqrt2PiT(L)),
         TMul(TMul(TMul(L["t_cost_of_carries"], L["t_strikes"]), CarryDiscount(L)),
              norm_cdf(L["d2"])))
\* line 152
call_vega(L) ==
    TMul(TMul(L["t_spots"], torch_sqrt(L["t_expiries"])), ExpHalfSquare(L["d1"]))
\* line 158
call_rho(L) ==
    TMul(TMul(TMul(L["t_strikes"], L["t_expiries"]), CarryDiscount(L)),
         norm_cdf(L["d2"]))

\* line 165
put_delta(L) == TSubInt(norm_cdf(L["d1"]), 1)
\* put_gamma with t_volatilities left out of the denominator
put_gamma_NoVolatility(L) ==
    TDiv(ExpHalfSquare(L["d1"]), TMul(Sqrt2PiT(L), L["t_spots"]))

\* line 170
put_gamma(L) ==
    TDiv(ExpHalfSquare(L["d1"]),
         TMul(TMul(Sqrt2PiT(L), L["t_spots"]), L["t_volatilities"]))
\* lines 176-178
put_theta(L) ==
    TAdd(TDiv(TMul(TMul(TNeg(L["t_spots"]), L["t_volatilities"]),
                   ExpHalfSquare(L["d1"])),
              Sqrt2PiT(L)),
         TMul(TMul(TMul(L["t_cost_of_carries"], L["t_strikes"]), CarryDiscount(L)),
              norm_cdf(TNeg(L["d2"]))))
\* line 183
put_vega(L) ==
    TMul(TMul(L["t_spots"], torch_sqrt(L["t_expiries"])), ExpHalfSquare(L["d1"]))
\* line 189
put_rho(L) ==
    TMul(TMul(TMul(TNeg(L["t_strikes"]), L["t_expiries"]), CarryDiscount(L)),
         norm_cdf(TNeg(L["d2"])))

\* <greek> = <formula>; return <greek>
AssignReturn(st, n, val) == Return(Assign(st, n, val), val)

\* lines 131-159
CallBranch(st, greek) ==
    IF greek = "delta"
        THEN LET s == WithD1(st) IN AssignReturn(s, "delta", call_delta(s.locals))
    ELSE IF greek = "gamma"
        THEN LET s == WithD1(st) IN AssignReturn(s, "gamma", call_gamma(s.locals))
    ELSE IF greek = "theta"
        THEN LET s == WithD2(st) IN AssignReturn(s, "theta", call_theta(s.locals))
    ELSE IF greek = "vega"
        THEN LET s == WithD1(st) IN AssignReturn(s, "vega", call_vega(s.locals))
    ELSE IF greek = "rho"
        THEN LET s == WithD2(st) IN AssignReturn(s, "rho", call_rho(s.locals))
    ELSE st

\* lines 162-190
PutBranch(st, greek) ==
    IF greek = "delta"
        THEN LET s == WithD1(st) IN AssignReturn(s, "delta", put_delta(s.locals))
    ELSE IF greek = "gamma"
        THEN LET s == WithD1(st) IN AssignReturn(s, "gamma", put_gamma(s.locals))
    ELSE IF greek = "theta"
        THEN LET s == WithD2(st) IN AssignReturn(s, "theta", put_theta(s.locals))
    ELSE IF greek = "vega"
        THEN LET s == WithD1(st) IN AssignReturn(s, "vega", put_vega(s.locals))
    ELSE IF greek = "rho"
        THEN LET s == WithD2(st) IN AssignReturn(s, "rho", put_rho(s.locals))
    ELSE st

\* lines 130-192: the else of line 191 belongs to the if of line 161
GreeksDispatch(st, greek, is_call_options) ==
    IF ~Running(st) THEN st
    ELSE LET s1 == IF PyEqTrue(is_call_options) THEN CallBranch(st, greek) ELSE st
         IN IF ~Running(s1) THEN s1
            ELSE IF PyEqFalse(is_call_options) THEN PutBranch(s1, greek)
            ELSE Raise(s1, "ValueError", MsgFlag)

\* lines 75-192
get_vanilla_greeks(a, greek, is_call_options) ==
    LET s0 == CheckGreek(Frame0, greek)
        s1 == CheckExclusivity(s0, a)
        s2 == Normalize(s1, a)
        s3 == GreeksSpotForward(s2, a)
    IN GreeksDispatch(s3, greek, is_call_options)

-----------------------------------------------------------------------------
(* One call *)

VARIABLES
    args,   \* the keyword arguments of the call
    call,   \* the entry point called, with its greek and is_call_options
    out     \* the frame the call ended in

vars == <<args, call, out>>

NoCall == [fn |-> "none", greek |-> "", flag |-> ""]

Init ==
    /\ args \in Args
    /\ call = NoCall
    /\ out = Frame0

Prices ==
    /\ call = NoCall
    /\ \E f \in Flags :
          /\ call' = [fn |-> "prices", greek |-> "", flag |-> f]
          /\ out' = get_vanilla_prices(args, f)
    /\ UNCHANGED args

Greeks ==
    /\ call = NoCall
    /\ \E g \in Selectors, f \in Flags :
          /\ call' = [fn |-> "greeks", greek |-> g, flag |-> f]
          /\ out' = get_vanilla_greeks(args, g, f)
    /\ UNCHANGED args

Next == Prices \/ Greeks

Spec == Init /\ [][Next]_vars

-----------------------------------------------------------------------------
(* Vocabulary of the properties *)

Called == call.fn # "none"
Returned(o) == o.done /\ o.exc = ""
InvalidInput(o) == o.exc = "ValueError"
Range(q) == {q[i] : i \in 1..Len(q)}
Close(x, y) == \A i \in 1..Len(x) : Abs(x[i] - y[i]) <= Tol
SameLength(x, y) == Len(x) = Len(y)

ExactlyOneSpotForward(a) == IsNone(a.spots) # IsNone(a.forwards)
AtMostOneDiscount(a) == IsNone(a.discount_rates) \/ IsNone(a.discount_factors)
AtMostOneDividend(a) == IsNone(a.continuous_dividends) \/ IsNone(a.cost_of_carries)
ValidInputs(a) ==
    ExactlyOneSpotForward(a) /\ AtMostOneDiscount(a) /\ AtMostOneDividend(a)
BooleanFlag(f) == PyEqTrue(f) \/ PyEqFalse(f)
ValidSelection(c) ==
    c.fn = "greeks" => (c.greek \in GreekNames /\ BooleanFlag(c.flag))

\* the names the normalization step defines
NormalizedNames ==
    { "t_strikes", "t_volatilities", "t_expiries", "t_discount_rates",
      "t_continuous_dividends", "t_cost_of_carries", "t_discount_factors",
      "t_spots", "t_forwards" }

-----------------------------------------------------------------------------
(* Properties *)

\* C1: every call ends in a complete result batch or in a ValueError, and a
\* call whose three exclusivity rules, selector and flag are all valid
\* returns a result batch.
C1_ResultOrInvalidInput ==
    Called =>
        /\ Returned(out) \/ InvalidInput(out)
        /\ (ValidInputs(args) /\ ValidSelection(call)) => Returned(out)

\* C2: in both functions a call raises ValueError when spots and forwards are
\* both supplied or both omitted, when both discount inputs are supplied, or
\* when both dividend inputs are supplied; and each of the three checks
\* raises only when its own rule is violated.
C2_ExclusivityEnforced ==
    Called =>
        /\ ~ExactlyOneSpotForward(args) => InvalidInput(out)
        /\ ~AtMostOneDiscount(args) => InvalidInput(out)
        /\ ~AtMostOneDividend(args) => InvalidInput(out)
        /\ out.msg = MsgSpotForward => ~ExactlyOneSpotForward(args)
        /\ out.msg = MsgDiscount => ~AtMostOneDiscount(args)
        /\ out.msg = MsgDividend => ~AtMostOneDividend(args)

\* a get_vanilla_greeks call with neither spots nor forwards was rejected by
\* the first check
C2_Witness ==
    /\ call.fn = "greeks"
    /\ IsNone(args.spots) /\ IsNone(args.forwards)
    /\ InvalidInput(out) /\ out.msg = MsgSpotForward

\* the discount factor the normalization is to arrive at: the supplied one,
\* or exp(-discount_rate * expiry) when none is supplied
CanonicalDiscountFactor(a) ==
    IF ~IsNone(a.discount_factors) THEN a.discount_factors.v
    ELSE LET rate == IF ~IsNone(a.discount_rates) THEN a.discount_rates.v
                     ELSE torch_zeros_like(a.expiries.v)
         IN torch_exp(TMul(TNeg(rate), a.expiries.v))

\* C3: put-call parity of get_vanilla_prices: on inputs for which the call
\* price is returned, the put price is returned too and
\* call - put = discount_factor * (forward - strike) for every element.
C3_PutCallParity ==
    (call.fn = "prices" /\ PyEqTrue(call.flag) /\ ValidInputs(args) /\ Returned(out)) =>
        LET put == get_vanilla_prices(args, "False")
        IN /\ Returned(put)
           /\ Close(TSub(out.ret, put.ret),
                    TMul(CanonicalDiscountFactor(args),
                         TSub(out.locals["t_forwards"], out.locals["t_strikes"])))

\* the frame of the other entry point on the same keyword arguments
OtherFunction ==
    IF call.fn = "prices" THEN get_vanilla_greeks(args, "delta", "True")
    ELSE get_vanilla_prices(args, "True")

\* C4: once the statements before the spot/forward step have completed, both
\* functions define spot and forward: a supplied forward is kept and
\* spot = forward * exp(-cost_of_carry * expiry); a supplied spot is kept and
\* forward = spot * exp(cost_of_carry * expiry); and the other function
\* arrives at the same spot and forward.
C4_SpotForwardResolved ==
    (Called /\ Bound(out, "t_discount_factors")) =>
        LET L == out.locals
            growth == TMul(L["t_cost_of_carries"], L["t_expiries"])
            other == OtherFunction
        IN /\ Bound(out, "t_spots") /\ Bound(out, "t_forwards")
           /\ ~IsNone(args.forwards) =>
                 /\ L["t_forwards"] = args.forwards.v
                 /\ L["t_spots"] = TMul(args.forwards.v, torch_exp(TNeg(growth)))
           /\ ~IsNone(args.spots) =>
                 /\ L["t_spots"] = args.spots.v
                 /\ L["t_forwards"] = TMul(args.spots.v, torch_exp(growth))
           /\ Bound(other, "t_spots") /\ Bound(other, "t_forwards")
           /\ other.locals["t_spots"] = L["t_spots"]
           /\ other.locals["t_forwards"] = L["t_forwards"]

\* C5: once the discount rate is resolved, the cost of carry is defined: it is
\* cost_of_carries when supplied, and otherwise discount_rate minus the
\* supplied continuous_dividends, or minus zero when neither is supplied.
C5_CostOfCarryResolved ==
    (Called /\ Bound(out, "t_discount_rates")) =>
        /\ Bound(out, "t_cost_of_carries")
        /\ out.locals["t_cost_of_carries"] =
              IF ~IsNone(args.cost_of_carries) THEN args.cost_of_carries.v
              ELSE TSub(out.locals["t_discount_rates"],
                        IF ~IsNone(args.continuous_dividends)
                            THEN args.continuous_dividends.v
                        ELSE torch_zeros_like(args.volatilities.v))

\* C6: get_vanilla_greeks raises ValueError for a selector outside the five
\* greeks and for a flag that equals neither True nor False; with a valid
\* selector and a boolean flag it raises neither of these two errors and, on
\* valid inputs, returns one value per element.
C6_SelectorValidation ==
    call.fn = "greeks" =>
        /\ call.greek \notin GreekNames => InvalidInput(out)
        /\ ~BooleanFlag(call.flag) => InvalidInput(out)
        /\ (call.greek \in GreekNames /\ BooleanFlag(call.flag)) =>
              /\ out.msg \notin {MsgGreek, MsgFlag}
              /\ ValidInputs(args) =>
                    (Returned(out) /\ SameLength(out.ret, args.strikes.v))

\* C7: for the same keyword arguments, gamma of a call equals gamma of a put,
\* and vega of a call equals vega of a put.
C7_GammaVegaCallEqualsPut ==
    (call.fn = "greeks" /\ call.greek \in {"gamma", "vega"} /\ PyEqTrue(call.flag)) =>
        LET put == get_vanilla_greeks(args, call.greek, "False")
        IN /\ Returned(out) = Returned(put)
           /\ out.exc = put.exc
           /\ out.ret = put.ret

\* a call gamma was returned, with a nonzero element, and so was the put gamma
C7_Witness ==
    /\ call.fn = "greeks" /\ call.greek = "gamma" /\ PyEqTrue(call.flag)
    /\ Returned(out)
    /\ \E i \in 1..Len(out.ret) : out.ret[i] > 0
    /\ Returned(get_vanilla_greeks(args, "gamma", "False"))

\* C8: every call that ends in a ValueError raised it before any numeric
\* statement of that call was executed.
C8_ValidationBeforeNumericWork ==
    (Called /\ InvalidInput(out)) => out.work = << >>

\* C8, amended: the exclusivity and selector errors are raised before any
\* numeric statement; the flag error of get_vanilla_greeks is raised after
\* the whole normalization has been computed and before d1 or d2 are.
C8_ValidationOrder ==
    (Called /\ InvalidInput(out)) =>
        IF out.msg = MsgFlag
            THEN call.fn = "greeks" /\ Range(out.work) = NormalizedNames
        ELSE out.work = << >>

\* both kinds of ValueError occur: here the flag error, after normalization
C8_Witness ==
    /\ call.fn = "greeks" /\ ~BooleanFlag(call.flag)
    /\ InvalidInput(out) /\ out.msg = MsgFlag
    /\ Len(out.work) = Cardinality(NormalizedNames)

\* the standard normal density exp(-x^2/2) / sqrt(2*pi)
StandardNormalDensity(x) ==
    [i \in 1..Len(x) |-> FxDiv(ExpHalfSquare(x)[i], FxSqrt(2 * pi))]

\* C9: a returned vega is spot * sqrt(expiry) * phi(d1), phi the standard
\* normal density.
C9_VegaFormula ==
    (call.fn = "greeks" /\ call.greek = "vega" /\ Returned(out)) =>
        LET L == out.locals
        IN Close(out.ret,
                 TMul(TMul(L["t_spots"], torch_sqrt(L["t_expiries"])),
                      StandardNormalDensity(L["d1"])))

\* C10: once get_vanilla_prices has computed the undiscounted call, it returns
\* discount_factor * undiscounted_call when the flag equals True and
\* discount_factor * (undiscounted_call - (forward - strike)) for every other
\* flag, and raises nothing.
C10_PriceDispatch ==
    (call.fn = "prices" /\ Bound(out, "t_undiscounted_calls")) =>
        LET L == out.locals
        IN /\ Returned(out)
           /\ PyEqTrue(call.flag) =>
                 out.ret = TMul(L["t_discount_factors"], L["t_undiscounted_calls"])
           /\ ~PyEqTrue(call.flag) =>
                 out.ret = TMul(L["t_discount_factors"],
                                TSub(L["t_undiscounted_calls"],
                                     TSub(L["t_forwards"], L["t_strikes"])))

====
